---------------------------- MODULE Spec2Model ----------------------------
(***************************************************************************)
(* KhmerLink slug store (src/api/fixed_index.py, the module that           *)
(* src/index.py serves): load_mappings / save_mappings / create_link /     *)
(* redirect_to_destination over one JSON file.                             *)
(*                                                                         *)
(* Text is a sequence of Unicode code points, the file a sequence of       *)
(* bytes (0..255) or NoFile.  A table (Python dict) is a sequence of       *)
(* <<key, value>> pairs with pairwise distinct keys, in insertion order,   *)
(* which is the order json.dump writes them in.                            *)
(***************************************************************************)
EXTENDS Integers, Sequences, FiniteSets, TLC

VARIABLES file, hs

vars == <<file, hs>>

\* ------------------------------------------------------------- bounds

\* Largest number of entries a Create may bring the table to.
MaxEntries == 2

\* Number of request handlers that may be in flight (SpecConc).
NHandlers == 2

\* ------------------------------------------------------------- inputs

\* Form / path inputs: "a", " a" (padded), U+1795 (Khmer, 3 bytes in UTF-8),
\* " " (whitespace only) and a double quote (escaped by json.dump).  Form(...)
\* and the path parameter of "/{slug}" both refuse the empty string.
SlugInputs == { <<97>>, <<32, 97>>, <<6037>>, <<32>>, <<34>> }

\* "u" and "v " (trailing blank).
UrlInputs == { <<117>>, <<118, 32>> }

\* The requests issued under write faults: "a" and U+1795, to "u".
FaultSlugs == { <<97>>, <<6037>> }

FaultUrls == { <<117>> }

\* ------------------------------------------------------------- str.strip

\* str.isspace() for one code point (the Unicode White_Space set that
\* str.strip() removes).
IsSpace(c) ==
    \/ c \in 9..13
    \/ c \in 28..32
    \/ c \in {133, 160, 5760, 8232, 8233, 8239, 8287, 12288}
    \/ c \in 8192..8202

RECURSIVE lstrip(_)
lstrip(s) ==
    IF s = <<>> THEN <<>>
    ELSE IF IsSpace(Head(s)) THEN lstrip(Tail(s)) ELSE s

RECURSIVE rstrip(_)
rstrip(s) ==
    IF s = <<>> THEN <<>>
    ELSE IF IsSpace(s[Len(s)]) THEN rstrip(SubSeq(s, 1, Len(s) - 1)) ELSE s

\* A faulty strip that trims the left side only.
strip_left_only(s) == lstrip(s)

strip(s) == rstrip(lstrip(s))

\* ------------------------------------------------------------- dict

\* The storage file DATA_FILE: absent, or present with its bytes.
NoFile == [exists |-> FALSE, bytes |-> <<>>]

FileOf(b) == [exists |-> TRUE, bytes |-> b]

EmptyDict == <<>>

Keys(d) == { d[i][1] : i \in 1..Len(d) }

HasKey(d, k) == \E i \in 1..Len(d) : d[i][1] = k

DictGet(d, k) == d[CHOOSE i \in 1..Len(d) : d[i][1] = k][2]

\* A faulty store that forgets every earlier entry.
DictSetForgets(d, k, v) == << <<k, v>> >>

\* d[k] = v: replaces in place, or appends a new key.
DictSet(d, k, v) ==
    IF HasKey(d, k)
    THEN [i \in 1..Len(d) |-> IF d[i][1] = k THEN <<k, v>> ELSE d[i]]
    ELSE Append(d, <<k, v>>)

\* ------------------------------------------------------------- UTF-8

\* encoding="utf-8" on write: one code point to its bytes.
Utf8Encode(c) ==
    IF c < 128 THEN <<c>>
    ELSE IF c < 2048 THEN <<192 + (c \div 64), 128 + (c % 64)>>
    ELSE IF c < 65536
         THEN <<224 + (c \div 4096), 128 + ((c \div 64) % 64), 128 + (c % 64)>>
    ELSE <<240 + (c \div 262144), 128 + ((c \div 4096) % 64),
           128 + ((c \div 64) % 64), 128 + (c % 64)>>

RECURSIVE EncodeText(_)
EncodeText(t) ==
    IF t = <<>> THEN <<>> ELSE Utf8Encode(Head(t)) \o EncodeText(Tail(t))

IsCont(b) == b \in 128..191

\* Length of the sequence a lead byte announces (0: not a lead byte).
SeqLen(b) ==
    IF b < 128 THEN 1
    ELSE IF b \in 194..223 THEN 2
    ELSE IF b \in 224..239 THEN 3
    ELSE IF b \in 240..244 THEN 4
    ELSE 0

\* encoding="utf-8" on read (errors="strict"): the text, or a
\* UnicodeDecodeError on a truncated, overlong or otherwise invalid sequence.
RECURSIVE DecodeFrom(_, _, _)
DecodeFrom(b, i, acc) ==
    IF i > Len(b) THEN [ok |-> TRUE, text |-> acc]
    ELSE LET n == SeqLen(b[i]) IN
         IF n = 0 \/ i + n - 1 > Len(b) THEN [ok |-> FALSE, text |-> <<>>]
         ELSE IF \E j \in (i + 1)..(i + n - 1) : ~IsCont(b[j])
              THEN [ok |-> FALSE, text |-> <<>>]
         ELSE LET c == IF n = 1 THEN b[i]
                       ELSE IF n = 2 THEN (b[i] - 192) * 64 + (b[i + 1] - 128)
                       ELSE IF n = 3
                            THEN (b[i] - 224) * 4096 + (b[i + 1] - 128) * 64
                                 + (b[i + 2] - 128)
                       ELSE (b[i] - 240) * 262144 + (b[i + 1] - 128) * 4096
                            + (b[i + 2] - 128) * 64 + (b[i + 3] - 128)
              IN IF \/ Utf8Encode(c) # SubSeq(b, i, i + n - 1)
                    \/ c \in 55296..57343
                    \/ c > 1114111
                 THEN [ok |-> FALSE, text |-> <<>>]
                 ELSE DecodeFrom(b, i + n, Append(acc, c))

Utf8Decode(b) == DecodeFrom(b, 1, <<>>)

\* ------------------------------------------------------------- json.dump

HexDigit(n) == IF n < 10 THEN 48 + n ELSE 87 + n

\* A faulty escape that writes every character as it is.
JsonEscapeNothing(c) == <<c>>

\* json.encoder ESCAPE_DCT with ensure_ascii=False: quote, backslash and the
\* control characters are escaped, everything else is written literally.
JsonEscape(c) ==
    IF c = 34 THEN <<92, 34>>
    ELSE IF c = 92 THEN <<92, 92>>
    ELSE IF c = 10 THEN <<92, 110>>
    ELSE IF c = 13 THEN <<92, 114>>
    ELSE IF c = 9 THEN <<92, 116>>
    ELSE IF c = 8 THEN <<92, 98>>
    ELSE IF c = 12 THEN <<92, 102>>
    ELSE IF c < 32 THEN <<92, 117, 48, 48, HexDigit(c \div 16), HexDigit(c % 16)>>
    ELSE <<c>>

RECURSIVE JsonEscapeAll(_)
JsonEscapeAll(s) ==
    IF s = <<>> THEN <<>> ELSE JsonEscape(Head(s)) \o JsonEscapeAll(Tail(s))

JsonString(s) == <<34>> \o JsonEscapeAll(s) \o <<34>>

\* The members of a non-empty object under indent=2: each on its own line,
\* indented by two blanks, "key": "value", separated by commas.
RECURSIVE JsonItems(_, _)
JsonItems(d, i) ==
    IF i > Len(d) THEN <<>>
    ELSE (IF i = 1 THEN <<>> ELSE <<44>>) \o <<10, 32, 32>>
         \o JsonString(d[i][1]) \o <<58, 32>> \o JsonString(d[i][2])
         \o JsonItems(d, i + 1)

\* json.dump(data, f, ensure_ascii=False, indent=2): the text written.
json_dumps(d) ==
    IF d = <<>> THEN <<123, 125>>
    ELSE <<123>> \o JsonItems(d, 1) \o <<10, 125>>

\* The bytes save_mappings hands to the file.
Serialize(d) == EncodeText(json_dumps(d))

\* ------------------------------------------------------------- json.load

Bad == [ok |-> FALSE, val |-> <<>>, next |-> 0]

IsJsonWs(c) == c \in {32, 9, 10, 13}

RECURSIVE SkipWs(_, _)
SkipWs(t, i) ==
    IF i <= Len(t) /\ IsJsonWs(t[i]) THEN SkipWs(t, i + 1) ELSE i

At(t, i) == IF i \in 1..Len(t) THEN t[i] ELSE -1

HexVal(c) ==
    IF c \in 48..57 THEN c - 48
    ELSE IF c \in 97..102 THEN c - 87
    ELSE IF c \in 65..70 THEN c - 55
    ELSE -1

\* json.decoder BACKSLASH: the character an escape letter stands for.
Unescape(c) ==
    IF c \in {34, 92, 47} THEN c
    ELSE IF c = 98 THEN 8
    ELSE IF c = 102 THEN 12
    ELSE IF c = 110 THEN 10
    ELSE IF c = 114 THEN 13
    ELSE IF c = 116 THEN 9
    ELSE -1

\* scanstring (strict): t[i] is the first character after the opening quote.
RECURSIVE ScanString(_, _, _)
ScanString(t, i, acc) ==
    LET c == At(t, i) IN
    IF c = -1 THEN Bad
    ELSE IF c = 34 THEN [ok |-> TRUE, val |-> acc, next |-> i + 1]
    ELSE IF c < 32 THEN Bad
    ELSE IF c # 92 THEN ScanString(t, i + 1, Append(acc, c))
    ELSE LET e == At(t, i + 1) IN
         IF e = 117
         THEN LET h == [j \in 1..4 |-> HexVal(At(t, i + 1 + j))] IN
              IF \E j \in 1..4 : h[j] = -1 THEN Bad
              ELSE ScanString(t, i + 6,
                     Append(acc, h[1] * 4096 + h[2] * 256 + h[3] * 16 + h[4]))
         ELSE IF Unescape(e) = -1 THEN Bad
         ELSE ScanString(t, i + 2, Append(acc, Unescape(e)))

\* JSONObject, one member after the other; acc holds the members read so
\* far.  Values other than strings are never written by save_mappings and
\* are rejected here.
RECURSIVE ParseMembers(_, _, _)
RECURSIVE AfterKey(_, _, _)
RECURSIVE AfterColon(_, _, _, _)
RECURSIVE AfterValue(_, _, _, _)
RECURSIVE AfterMember(_, _, _)

\* t[i] is where a member's key must start.
ParseMembers(t, i, acc) ==
    IF At(t, i) # 34 THEN Bad ELSE AfterKey(t, acc, ScanString(t, i + 1, <<>>))

\* k: the key scanned; a colon must follow.
AfterKey(t, acc, k) ==
    IF ~k.ok THEN Bad ELSE AfterColon(t, acc, k.val, SkipWs(t, k.next))

\* t[c] must be the colon, and a string value must follow it.
AfterColon(t, acc, key, c) ==
    IF At(t, c) # 58 \/ At(t, SkipWs(t, c + 1)) # 34 THEN Bad
    ELSE AfterValue(t, acc, key, ScanString(t, SkipWs(t, c + 1) + 1, <<>>))

\* v: the value scanned; the pair is stored (a repeated key keeps the last
\* value).
AfterValue(t, acc, key, v) ==
    IF ~v.ok THEN Bad
    ELSE AfterMember(t, DictSet(acc, key, v.val), SkipWs(t, v.next))

\* t[e] must close the object or announce the next member.
AfterMember(t, d, e) ==
    IF At(t, e) = 125 THEN [ok |-> TRUE, val |-> d, next |-> e + 1]
    ELSE IF At(t, e) = 44 THEN ParseMembers(t, SkipWs(t, e + 1), d)
    ELSE Bad

\* After the value: only whitespace may follow ("Extra data" otherwise).
JsonEnd(t, o) ==
    IF ~o.ok THEN Bad
    ELSE IF SkipWs(t, o.next) <= Len(t) THEN Bad
    ELSE o

\* t[m] is the first non-blank character after the opening brace.
JsonObject(t, m) ==
    IF At(t, m) = 125
    THEN [ok |-> TRUE, val |-> EmptyDict, next |-> m + 1]
    ELSE ParseMembers(t, m, EmptyDict)

\* json.loads(text): the dict, or ok = FALSE for a JSONDecodeError.
json_loads(t) ==
    IF At(t, SkipWs(t, 1)) # 123 THEN Bad
    ELSE JsonEnd(t, JsonObject(t, SkipWs(t, SkipWs(t, 1) + 1)))

\* ------------------------------------------------------------- store

Loaded(d) == [exc |-> "none", data |-> d]

Raised(e) == [exc |-> e, data |-> EmptyDict]

\* except json.JSONDecodeError: return {}
JsonOrEmpty(j) == Loaded(IF j.ok THEN j.val ELSE EmptyDict)

\* json.load(f): f.read() decodes the whole file (a UnicodeDecodeError is not
\* a JSONDecodeError and is not caught), json.loads parses the text.
json_load(t) ==
    IF ~t.ok THEN Raised("UnicodeDecodeError")
    ELSE JsonOrEmpty(json_loads(t.text))

\* load_mappings(): {} when the file is absent or json.load raises
\* JSONDecodeError.
load_mappings(f) ==
    IF ~f.exists THEN Loaded(EmptyDict) ELSE json_load(Utf8Decode(f.bytes))

\* write(2) of b at offset 0 of a file holding old: bytes past the end of b
\* stay.
WriteAt0(old, b) ==
    IF Len(old) > Len(b) THEN b \o SubSeq(old, Len(b) + 1, Len(old)) ELSE b

\* The bytes b go to the file open(DATA_FILE, "w") created or truncated.
\* wf is what the file system does: -2, the write completes; -1, open
\* raises OSError and the file is untouched; n >= 0, the write raises
\* OSError (ENOSPC, EIO) after n bytes reached the file.
WriteOut(f, b, wf) ==
    IF wf = -1 THEN [exc |-> "OSError", file |-> f]
    ELSE IF wf \in 0..(Len(b) - 1)
         THEN [exc |-> "OSError", file |-> FileOf(SubSeq(b, 1, wf))]
    ELSE [exc |-> "none", file |-> FileOf(b)]

\* save_mappings(data): open, json.dump, and the close that leaving the
\* with-block does.
save_mappings(f, d, wf) == WriteOut(f, Serialize(d), wf)

\* ------------------------------------------------------------- handlers

NoOut == [kind |-> "none", dest |-> <<>>, exc |-> "none"]

\* home(request, message=...): the page with the success message.
Success == [kind |-> "Success", dest |-> <<>>, exc |-> "none"]

\* home(request, error="Slug already exists..."): the page with the error.
AlreadyExists == [kind |-> "AlreadyExists", dest |-> <<>>, exc |-> "none"]

\* RedirectResponse(data[slug]).
Redirect(u) == [kind |-> "Redirect", dest |-> u, exc |-> "none"]

\* raise HTTPException(status_code=404).
NotFound == [kind |-> "NotFound", dest |-> <<>>, exc |-> "none"]

\* An exception the handler does not catch: it leaves the handler as an
\* exception, not as a response the handler returns.
Uncaught(e) == [kind |-> "Uncaught", dest |-> <<>>, exc |-> e]

Idle ==
    [pc |-> "idle", op |-> "none", slug |-> <<>>, url |-> <<>>,
     data |-> EmptyDict, buf |-> <<>>, out |-> NoOut]

Done(op, slug, url, data, out) ==
    [pc |-> "done", op |-> op, slug |-> slug, url |-> url,
     data |-> data, buf |-> <<>>, out |-> out]

\* The response after save_mappings returned or raised.
CreateSaved(slug, url, d, w) ==
    [file |-> w.file,
     h |-> Done("create", slug, url, d,
                IF w.exc = "none" THEN Success ELSE Uncaught(w.exc))]

\* data[slug] = url (done by the caller: d); save_mappings(data)
CreateInsert(f, slug, url, wf, d) ==
    CreateSaved(slug, url, d, save_mappings(f, d, wf))

\* A faulty check that stores without looking the slug up.
CreateCheckedNoCheck(f, slug, url, wf, l) ==
    IF l.exc # "none"
    THEN [file |-> f, h |-> Done("create", slug, url, l.data, Uncaught(l.exc))]
    ELSE CreateInsert(f, slug, url, wf, DictSet(l.data, strip(slug), strip(url)))

\* l: what load_mappings() gave.  if slug in data: the error page, no write.
CreateChecked(f, slug, url, wf, l) ==
    IF l.exc # "none"
    THEN [file |-> f, h |-> Done("create", slug, url, l.data, Uncaught(l.exc))]
    ELSE IF HasKey(l.data, strip(slug))
    THEN [file |-> f, h |-> Done("create", slug, url, l.data, AlreadyExists)]
    ELSE CreateInsert(f, slug, url, wf, DictSet(l.data, strip(slug), strip(url)))

\* create_link(slug, url), run from entry to its response: the file it leaves
\* and the finished handler (slug and url are kept as they came in).
create_link(f, slug, url, wf) ==
    CreateChecked(f, slug, url, wf, load_mappings(f))

\* if slug not in data: 404, else the redirect.
ResolveLoaded(slug, l) ==
    IF l.exc # "none"
    THEN Done("resolve", slug, <<>>, l.data, Uncaught(l.exc))
    ELSE IF ~HasKey(l.data, slug)
    THEN Done("resolve", slug, <<>>, l.data, NotFound)
    ELSE Done("resolve", slug, <<>>, l.data, Redirect(DictGet(l.data, slug)))

\* redirect_to_destination(slug): the slug is used as it came in the path.
redirect_to_destination(f, slug) == ResolveLoaded(slug, load_mappings(f))

\* The table load_mappings() returns for file f ({} when it raises).
TableOf(f) == load_mappings(f).data

\* A request that would take table d past MaxEntries is not issued.
FitsIn(d, slug) == HasKey(d, strip(slug)) \/ Len(d) < MaxEntries

Init ==
    /\ file = NoFile
    /\ hs = [i \in 1..NHandlers |-> Idle]

\* ------------------------------ Spec: one request at a time, no file faults

Create(slug, url) ==
    /\ FitsIn(TableOf(file), slug)
    /\ \E r \in {create_link(file, slug, url, -2)} :
          /\ file' = r.file
          /\ hs' = [hs EXCEPT ![1] = r.h]

Resolve(slug) ==
    /\ hs' = [hs EXCEPT ![1] = redirect_to_destination(file, slug)]
    /\ UNCHANGED file

Next ==
    \/ \E s \in SlugInputs, u \in UrlInputs : Create(s, u)
    \/ \E s \in SlugInputs : Resolve(s)

Spec == Init /\ [][Next]_vars

\* ------------------- SpecFault: one request at a time, writes that may fail

\* The write faults that can hit the save of this request.
WriteFaults(f, slug, url) ==
    -2..(Len(Serialize(DictSet(TableOf(f), strip(slug), strip(url)))) - 1)

CreateF(slug, url, wf) ==
    /\ FitsIn(TableOf(file), slug)
    /\ \E r \in {create_link(file, slug, url, wf)} :
          /\ file' = r.file
          /\ hs' = [hs EXCEPT ![1] = r.h]

NextFault ==
    \/ \E s \in FaultSlugs, u \in FaultUrls :
          \E wf \in WriteFaults(file, s, u) : CreateF(s, u, wf)
    \/ \E s \in FaultSlugs : Resolve(s)

SpecFault == Init /\ [][NextFault]_vars

\* ------------- SpecConc: handlers in flight together, one request for each
\* A handler holds no lock; its steps are its accesses to the file: the read
\* of load_mappings, the open("w") of save_mappings that truncates, and the
\* flush at close that puts the buffered text into the file (json.dump's
\* output stays in the file object's buffer until then).

\* load_mappings() of create_link.
BeginCreate(i, slug, url) ==
    /\ hs[i].pc = "idle"
    /\ FitsIn(TableOf(file), slug)
    /\ \E l \in {load_mappings(file)} :
          hs' = [hs EXCEPT ![i] =
                   IF l.exc # "none"
                   THEN Done("create", slug, url, l.data, Uncaught(l.exc))
                   ELSE [pc |-> "loaded", op |-> "create", slug |-> slug,
                         url |-> url, data |-> l.data,
                         buf |-> <<>>, out |-> NoOut]]
    /\ UNCHANGED file

\* if slug in data: return the error page.
RejectExisting(i) ==
    /\ hs[i].pc = "loaded"
    /\ HasKey(hs[i].data, strip(hs[i].slug))
    /\ hs' = [hs EXCEPT ![i] =
                Done("create", hs[i].slug, hs[i].url, hs[i].data, AlreadyExists)]
    /\ UNCHANGED file

\* data[slug] = url; open(DATA_FILE, "w"); json.dump into the buffer.
OpenForWrite(i) ==
    /\ hs[i].pc = "loaded"
    /\ ~HasKey(hs[i].data, strip(hs[i].slug))
    /\ hs' = [hs EXCEPT ![i] =
                [hs[i] EXCEPT
                   !.pc = "writing",
                   !.data = DictSet(hs[i].data, strip(hs[i].slug), strip(hs[i].url)),
                   !.buf = Serialize(DictSet(hs[i].data, strip(hs[i].slug),
                                             strip(hs[i].url)))]]
    /\ file' = FileOf(<<>>)

\* The with-block ends: the buffer is written at offset 0, the file closed,
\* and the success page returned.
FlushClose(i) ==
    /\ hs[i].pc = "writing"
    /\ file' = FileOf(WriteAt0(file.bytes, hs[i].buf))
    /\ hs' = [hs EXCEPT ![i] =
                Done("create", hs[i].slug, hs[i].url, hs[i].data, Success)]

\* redirect_to_destination: its one file access is the load.
ResolveC(i, slug) ==
    /\ hs[i].pc = "idle"
    /\ hs' = [hs EXCEPT ![i] = redirect_to_destination(file, slug)]
    /\ UNCHANGED file

NextConc ==
    \E i \in 1..NHandlers :
       \/ \E s \in SlugInputs, u \in UrlInputs : BeginCreate(i, s, u)
       \/ RejectExisting(i)
       \/ OpenForWrite(i)
       \/ FlushClose(i)
       \/ \E s \in SlugInputs : ResolveC(i, s)

SpecConc == Init /\ [][NextConc]_vars


\* ------------------------------------------------------------- claims

\* "Leading and trailing whitespace removed", stated on its own: t is s
\* without a blank prefix and a blank suffix, and neither starts nor ends
\* with a blank.
IsTrimOf(t, s) ==
    \E i \in 1..(Len(s) + 1), j \in 0..Len(s) :
       /\ t = SubSeq(s, i, j)
       /\ \A m \in 1..(i - 1) : IsSpace(s[m])
       /\ \A m \in (j + 1)..Len(s) : IsSpace(s[m])
       /\ t # <<>> => ~IsSpace(t[1]) /\ ~IsSpace(t[Len(t)])

TrimOf(s) ==
    CHOOSE t \in { SubSeq(s, i, j) : i \in 1..(Len(s) + 1), j \in 0..Len(s) } :
       IsTrimOf(t, s)

\* The request the sequential specifications finished last.
Last == hs[1]

\* C1 as stated: for every slug s that is not a key and every destination u,
\* Create(s, u) succeeds and a Resolve(s) right after it returns exactly u.
C1_CreateThenResolveExact ==
    [][ (hs'[1].op = "create" /\ ~HasKey(TableOf(file), hs'[1].slug))
        => /\ hs'[1].out = Success
           /\ redirect_to_destination(file', hs'[1].slug).out
                = Redirect(hs'[1].url) ]_vars

\* C1 amended: for every slug s whose trimmed form is not a key and every
\* destination u, Create(s, u) succeeds and a Resolve(trim(s)) right after it
\* returns trim(u), non-ASCII and quoted text included: the value survives
\* the save/load round trip through the file.
C1_CreateThenResolveTrimmed ==
    [][ (hs'[1].op = "create" /\ ~HasKey(TableOf(file), TrimOf(hs'[1].slug)))
        => /\ hs'[1].out = Success
           /\ redirect_to_destination(file', TrimOf(hs'[1].slug)).out
                = Redirect(TrimOf(hs'[1].url)) ]_vars

\* C1 witness: a Create of the Khmer slug succeeded and the slug resolves.
C1_Witness ==
    /\ Last.op = "create" /\ Last.out = Success /\ Last.slug = <<6037>>
    /\ redirect_to_destination(file, <<6037>>).out.kind = "Redirect"

\* C2: a Create of a slug that is already a key fails with AlreadyExists,
\* writes nothing, the slug still resolves to its original destination, and
\* no Create changes the value of an existing key.
C2_NoOverwrite ==
    [][ hs'[1].op = "create"
        => \A before \in {TableOf(file)}, after \in {TableOf(file')} :
           /\ HasKey(before, hs'[1].slug)
              => /\ hs'[1].out = AlreadyExists
                 /\ file' = file
                 /\ redirect_to_destination(file', hs'[1].slug).out
                      = Redirect(DictGet(before, hs'[1].slug))
           /\ \A k \in Keys(before) :
                 HasKey(after, k) /\ DictGet(after, k) = DictGet(before, k) ]_vars

\* C2 witness: a Create for an existing slug with another destination was
\* rejected.
C2_Witness ==
    /\ Last.op = "create" /\ Last.out = AlreadyExists
    /\ HasKey(TableOf(file), Last.slug)
    /\ DictGet(TableOf(file), Last.slug) # strip(Last.url)

\* Every handler has answered, and every request was a Create.
AllCreatesDone ==
    \A i \in 1..NHandlers : hs[i].pc = "done" /\ hs[i].op = "create"

\* C3: Creates in flight together on new slugs: with pairwise distinct slugs
\* all succeed and all entries are in the table once they have completed;
\* with one and the same slug exactly one succeeds and the others get
\* AlreadyExists.
C3_NoLostUpdate ==
    AllCreatesDone =>
       /\ (\A i, j \in 1..NHandlers :
              i # j => TrimOf(hs[i].slug) # TrimOf(hs[j].slug))
          => \A i \in 1..NHandlers :
                /\ hs[i].out = Success
                /\ HasKey(TableOf(file), TrimOf(hs[i].slug))
                /\ DictGet(TableOf(file), TrimOf(hs[i].slug)) = TrimOf(hs[i].url)
       /\ (\A i, j \in 1..NHandlers : TrimOf(hs[i].slug) = TrimOf(hs[j].slug))
          => /\ Cardinality({ i \in 1..NHandlers : hs[i].out = Success }) = 1
             /\ \A i \in 1..NHandlers : hs[i].out \in {Success, AlreadyExists}

\* The file holds what load_mappings can read as a table.
ValidContent(f) ==
    /\ f.exists
    /\ Utf8Decode(f.bytes).ok
    /\ json_loads(Utf8Decode(f.bytes).text).ok

\* C4: whenever the file is absent, empty or holds invalid content, Load
\* returns the empty table without raising, a Resolve gets NotFound and a
\* Create succeeds.
C4_LoadEmptyOnInvalid ==
    ~ValidContent(file) =>
       /\ load_mappings(file) = Loaded(EmptyDict)
       /\ \A s \in FaultSlugs :
             /\ redirect_to_destination(file, s).out = NotFound
             /\ create_link(file, s, <<117>>, -2).h.out = Success

\* C5: a Create whose save failed does not report success, and the failure
\* reaches the caller as a StorageError result the operation returns, not as
\* an exception that crosses the store boundary.
C5_SaveFailureReturned ==
    \A i \in 1..NHandlers :
       (hs[i].op = "create" /\ hs[i].out.exc = "OSError")
       => hs[i].out.kind = "StorageError"

\* C6: a Load after a save, completed or interrupted part-way, returns the
\* table as it was before that save or the table that save writes; a slug
\* persisted before the save began still resolves.
C6_SaveAtomic ==
    [][ hs'[1].op = "create"
        => \A before \in {TableOf(file)} :
           /\ TableOf(file') \in {before, hs'[1].data}
           /\ \A k \in Keys(before) :
                 redirect_to_destination(file', k).out
                   = Redirect(DictGet(before, k)) ]_vars

\* C7: whatever is wrong with an existing file, Load gives the empty table
\* and the calling Create or Resolve does not fail with an error of the read.
C7_ReadFailureMasked ==
    /\ load_mappings(file).exc = "none"
    /\ \A i \in 1..NHandlers : hs[i].out.exc # "UnicodeDecodeError"

\* C8: Create(slug, destination) behaves exactly as Create(trim(slug),
\* trim(destination)): the key looked up and inserted is the trimmed slug,
\* the value stored the trimmed destination, and a Create whose trimmed slug
\* is a key fails with AlreadyExists.
C8_CreateTrims ==
    [][ hs'[1].op = "create"
        => \A key \in {TrimOf(hs'[1].slug)}, value \in {TrimOf(hs'[1].url)},
              before \in {TableOf(file)} :
           \A trimmed \in {create_link(file, key, value, -2)} :
           /\ file' = trimmed.file
           /\ hs'[1].out = trimmed.h.out
           /\ IF HasKey(before, key)
              THEN hs'[1].out = AlreadyExists /\ file' = file
              ELSE /\ hs'[1].out = Success
                   /\ TableOf(file') = Append(before, <<key, value>>) ]_vars

\* C8 witness: a Create with a padded slug was rejected because its trimmed
\* form is a key.
C8_Witness ==
    /\ Last.op = "create" /\ Last.out = AlreadyExists
    /\ Last.slug # TrimOf(Last.slug)
    /\ HasKey(TableOf(file), TrimOf(Last.slug))

\* C9: the persisted table never has the empty string as a key.
C9_NoEmptyKey == ~HasKey(TableOf(file), <<>>)

\* C10: the table only grows: every persisted pair stays with its
\* destination, a successful Create adds exactly one key and changes no other
\* entry, a Resolve or a rejected Create leaves the file as it is.
C10_TableOnlyGrows ==
    [][ \A before \in {TableOf(file)}, after \in {TableOf(file')} :
        /\ \A k \in Keys(before) :
              HasKey(after, k) /\ DictGet(after, k) = DictGet(before, k)
        /\ IF hs'[1].op = "create" /\ hs'[1].out = Success
           THEN /\ Len(after) = Len(before) + 1
                /\ Cardinality(Keys(after)) = Cardinality(Keys(before)) + 1
           ELSE file' = file ]_vars

\* C10 witness: a second Create succeeded and the first pair is still there.
C10_Witness ==
    /\ Last.op = "create" /\ Last.out = Success
    /\ Len(TableOf(file)) = 2
    /\ TableOf(file)[2][1] = strip(Last.slug)


=============================================================================
